---- MODULE Spec2Model ----
(***************************************************************************)
(* DownOnSpot: the download job (src/src/download.rs, DownloadClient) as a *)
(* state machine.  A job is the stream returned by DownloadClient::download*)
(* (a try_stream! generator): it runs from one suspension point to the     *)
(* next when it is polled, and every item it yields is appended to the     *)
(* job's event history.                                                    *)
(***************************************************************************)
EXTENDS Integers, Sequences, FiniteSets, TLC

VARIABLES
    job,        \* the stream main.rs polls in print_progress
    queue,      \* DownloadClient::download_progress_queue
    client,     \* "running", or "panicked" once a poll has panicked
    submitted,  \* how many streams were ever put in the queue
    before,     \* the queue as the last remove_finished found it
    dropped,    \* the streams the last remove_finished dropped, as polled
    call        \* one call of a function: its arguments, then its result

vars == <<job, queue, client, submitted, before, dropped, call>>

(***************************************************************************)
(* Bounds of the model.                                                    *)
(***************************************************************************)
\* Longest alternatives list of a track.
MaxAlts == 2
\* Longest audio body (bytes after the OGG header) a stream carries.
MaxBody == 2
\* Most consecutive Interrupted results one read loop sees.
MaxInterrupts == 2
\* Most bytes the encoder returns for one decoded packet.
MaxEnc == 3
\* Most jobs ever submitted to the download queue.
MaxSubmits == 3

(***************************************************************************)
(* Program constants.                                                      *)
(***************************************************************************)
SPOTIFY_OGG_HEADER_END == 167
\* let mut buffer = [0; 1024 * 64];
BufferLen == 65536
\* Args::concurrent_downloads, default_value = "4".
concurrent_downloads == 2

Range(s) == {s[i] : i \in 1..Len(s)}
Min(S) == CHOOSE x \in S : \A y \in S : x <= y

(***************************************************************************)
(* audio_format.rs                                                         *)
(***************************************************************************)
FileFormat ==
    {"MP3_320", "MP3_256", "MP3_160", "MP3_160_ENC", "MP3_96",
     "OGG_VORBIS_320", "OGG_VORBIS_160", "OGG_VORBIS_96"}

DownloadOrderStrategy == {"MP3", "OGG", "QUALITY"}

\* Mutant of formats: QUALITY is the MP3 list followed by the OGG list.
formats_by_codec(strategy) ==
    CASE strategy = "MP3" ->
           <<"MP3_320", "MP3_256", "MP3_160", "MP3_160_ENC", "MP3_96">>
      [] strategy = "OGG" ->
           <<"OGG_VORBIS_320", "OGG_VORBIS_160", "OGG_VORBIS_96">>
      [] strategy = "QUALITY" ->
           <<"MP3_320", "MP3_256", "MP3_160", "MP3_160_ENC", "MP3_96",
             "OGG_VORBIS_320", "OGG_VORBIS_160", "OGG_VORBIS_96">>

formats(strategy) ==
    CASE strategy = "MP3" ->
           <<"MP3_320", "MP3_256", "MP3_160", "MP3_160_ENC", "MP3_96">>
      [] strategy = "OGG" ->
           <<"OGG_VORBIS_320", "OGG_VORBIS_160", "OGG_VORBIS_96">>
      [] strategy = "QUALITY" ->
           <<"MP3_320", "OGG_VORBIS_320", "MP3_256", "MP3_160", "MP3_160_ENC",
             "OGG_VORBIS_160", "MP3_96", "OGG_VORBIS_96">>

is_ogg(format) == format \in {"OGG_VORBIS_320", "OGG_VORBIS_160", "OGG_VORBIS_96"}

(***************************************************************************)
(* Tracks.  files is the key set of Track::files; the file reference of a  *)
(* key is the pair <<track id, format>>.                                   *)
(***************************************************************************)
TrackFiles ==
    { {}, {"OGG_VORBIS_320"}, {"MP3_320"}, {"MP3_96", "OGG_VORBIS_160"} }

AltFiles == { {}, {"OGG_VORBIS_96"}, {"MP3_256"} }

NoTrack == [id |-> -1, files |-> {}, alternatives |-> <<>>,
            available |-> FALSE, hasArtist |-> FALSE]

PrimaryTracks ==
    [id : {0}, files : TrackFiles,
     alternatives : {[i \in 1..n |-> i] : n \in 0..MaxAlts},
     available : BOOLEAN, hasArtist : BOOLEAN]

AltTracks(a) ==
    [id : {a}, files : AltFiles, alternatives : {<<>>},
     available : BOOLEAN, hasArtist : {TRUE}]

\* What Track::get answers for alternative a: an error, or the track.
LookupResults(a) ==
    {[ok |-> FALSE, track |-> NoTrack]} \cup [ok : {TRUE}, track : AltTracks(a)]

(***************************************************************************)
(* The environment of one job: the faults that may happen to it and the    *)
(* raw stream lengths the stream loader may report.                        *)
(***************************************************************************)
Faults == {"Artist", "Open", "Key", "Seek", "Decoder", "Encoder",
           "Interrupted", "Read", "Create", "Write"}

RawLens == {0, SPOTIFY_OGG_HEADER_END - 1}
           \cup {SPOTIFY_OGG_HEADER_END + b : b \in 0..MaxBody}

FullEnv == [faults |-> Faults, raws |-> RawLens]

(***************************************************************************)
(* Events: the items of the stream.                                        *)
(***************************************************************************)
Started == [type |-> "Started"]
Finished == [type |-> "Finished"]
Progress(current, total) == [type |-> "Progress", current |-> current, total |-> total]
Err(cause) == [type |-> "Err", cause |-> cause]

\* What the last poll step returned besides an item.
Pending == [type |-> "Pending"]
StreamEnd == [type |-> "None"]
Panic == [type |-> "Panic"]

\* No function call is being looked at.
NoCall == [op |-> "none", done |-> FALSE, args |-> <<>>, result |-> <<>>]

NoDisk == [created |-> FALSE, ext |-> "", bytes |-> <<>>]

NewJob(id, track, strategy, mp3, env) ==
    [id |-> id, pc |-> "init", track |-> track, strategy |-> strategy,
     mp3 |-> mp3, env |-> env,
     world |-> <<>>, pending |-> {}, lookups |-> 0,
     net |-> {}, chosen |-> NoTrack, format |-> "none", raw |-> 0, size |-> 0,
     reader |-> "none", pos |-> 0, remaining |-> 0,
     file |-> <<>>, chunks |-> <<>>, current |-> 0, interrupts |-> 0, lastRead |-> "none",
     events |-> <<>>, out |-> Pending, disk |-> NoDisk]

Yield(j, item, pc) ==
    [j EXCEPT !.events = Append(@, item), !.out = item, !.pc = pc]

\* `?` inside try_stream!: the error is yielded and the stream ends.
Fail(j, cause) == Yield(j, Err(cause), "done")

Goto(j, pc) == [j EXCEPT !.pc = pc, !.out = Pending]

May(j, fault) == fault \in j.env.faults

\* The job has sent the request `what` to the session.
Called(j, what) == [j EXCEPT !.net = @ \cup {what}]

FailIf(j, fault, cause) == IF May(j, fault) THEN {Fail(j, cause)} ELSE {}

\* Mutant of file_id: the last format of the list that is a key is taken.
file_id_last(strategy, track) ==
    LET fs == formats(strategy)
        present == {i \in 1..Len(fs) : fs[i] \in track.files}
        last == CHOOSE i \in present : \A k \in present : i >= k
    IN  IF present = {}
        THEN [ok |-> FALSE, file_id |-> <<>>, format |-> "none"]
        ELSE [ok |-> TRUE, file_id |-> <<track.id, fs[last]>>,
              format |-> fs[last]]

(***************************************************************************)
(* download.rs: file_id.  The first format of the strategy's list that is  *)
(* a key of track.files.                                                   *)
(***************************************************************************)
file_id(strategy, track) ==
    LET fs == formats(strategy)
        present == {i \in 1..Len(fs) : fs[i] \in track.files}
    IN  IF present = {}
        THEN [ok |-> FALSE, file_id |-> <<>>, format |-> "none"]
        ELSE [ok |-> TRUE, file_id |-> <<track.id, fs[Min(present)]>>,
              format |-> fs[Min(present)]]

(***************************************************************************)
(* download.rs: available_track.                                           *)
(***************************************************************************)
\* Mutant of HasFiles: the primary is also required to be flagged available.
HasFilesAndAvailable(track) == track.files # {} /\ track.available

\* if !track.files.is_empty() { return Some(track.to_owned()); }
HasFiles(track) == track.files # {}

\* Mutant of Qualifies: the availability filter is left out.
QualifiesAnyFound(r) == r.ok

\* .filter_map(|x| future::ready(x.ok())).filter(|x| future::ready(x.available))
Qualifies(r) == r.ok /\ r.track.available

\* The lookups available_track starts: one Track::get per alternative id.
LookupIds(track) == Range(track.alternatives)

(***************************************************************************)
(* download.rs: download, one step of the generator at a time.  Every      *)
(* operator gives the set of states the job may be in after the step.      *)
(***************************************************************************)
\* Mutant of StartSteps: the job goes on to its lookups, Started unsent.
StartStepsSilent(j) == { Goto(j, "artist") }

\* yield DownloadProgress::Started;
StartSteps(j) == { Yield(j, Started, "artist") }

\* Artist::get(&self.session, *track.artists.first().unwrap()).await?
ArtistSteps(j) ==
    IF ~j.track.hasArtist
    THEN { [j EXCEPT !.pc = "panicked", !.out = Panic] }
    ELSE { Goto(Called(j, "Artist::get"), "avail") }
         \cup FailIf(Called(j, "Artist::get"), "Artist", "DownloaderError")

\* reader: self.available_track(track).await.ok_or(Unavailable)?
\* The first poll of available_track.
AvailSteps(j) ==
    IF HasFiles(j.track)
    THEN { [Goto(j, "open") EXCEPT !.chosen = j.track] }
    ELSE IF LookupIds(j.track) = {}
    THEN { Fail(j, "Unavailable") }
    ELSE { [Goto(Called(j, "Track::get"), "lookup") EXCEPT
               !.world = w,
               !.pending = LookupIds(j.track),
               !.lookups = Cardinality(LookupIds(j.track))]
           : w \in {f \in [LookupIds(j.track) -> UNION {LookupResults(a) : a \in LookupIds(j.track)}] :
                      \A a \in LookupIds(j.track) : f[a] \in LookupResults(a)} }

\* FuturesUnordered: any lookup in flight completes next.
LookupSteps(j) ==
    { IF Qualifies(j.world[a])
      THEN [Goto(j, "open") EXCEPT
               !.chosen = j.world[a].track, !.pending = @ \ {a}, !.world = <<>>]
      ELSE IF j.pending = {a}
      THEN Fail([j EXCEPT !.pending = {}, !.world = <<>>], "Unavailable")
      ELSE [Goto(j, "lookup") EXCEPT !.pending = @ \ {a}]
      : a \in j.pending }

\* decrypt_stream: file_id, AudioFile::open, get_stream_loader_controller().len()
OpenSteps(j) ==
    LET r == file_id(j.strategy, j.chosen)
    IN  IF ~r.ok
        THEN { Fail(j, "Unavailable") }
        ELSE { [Goto(Called(j, "AudioFile::open"), "key") EXCEPT
                    !.format = r.format, !.raw = n]
               : n \in j.env.raws }
             \cup FailIf(Called(j, "AudioFile::open"), "Open", "Channel Error")

\* self.session.audio_key().request(id, file_id).await?
KeySteps(j) ==
    { Goto(Called(j, "AudioKey::request"), "seek") }
        \cup FailIf(Called(j, "AudioKey::request"), "Key", "AudioKey Error")

\* The number of values of usize, scaled down to the integers TLC has.
UsizeModulus == 1073741824

HeaderOffset(format) == IF is_ogg(format) THEN SPOTIFY_OGG_HEADER_END ELSE 0

\* size - offset in usize: exact when it fits; otherwise the build decides:
\* with overflow checks the subtraction panics (-1 here), without them the
\* value wraps.
DecryptedSize(raw, format) ==
    IF raw >= HeaderOffset(format)
    THEN { raw - HeaderOffset(format) }
    ELSE { -1, UsizeModulus - (HeaderOffset(format) - raw) }

\* decrypt_stream, after the key: seek past the header, compute the size.
SeekSteps(j) ==
    LET offset == HeaderOffset(j.format)
        left == IF j.raw >= offset THEN j.raw - offset ELSE 0
    IN  { IF s = -1
          THEN [j EXCEPT !.pc = "panicked", !.out = Panic]
          ELSE [Goto(j, "reader") EXCEPT
                   !.size = s, !.pos = offset, !.remaining = left]
          : s \in DecryptedSize(j.raw, j.format) }
        \cup (IF is_ogg(j.format) THEN FailIf(j, "Seek", "IoError") ELSE {})

\* Mutant of Transcodes: the converter is used whenever mp3 is asked for.
TranscodesIfMp3(format, mp3) == mp3

\* reader: if decrypted.is_ogg && mp3 { AudioConverter::new(..)? } else { audio_decrypt }
Transcodes(format, mp3) == is_ogg(format) /\ mp3

\* OggStreamReader::new reads the stream's headers: HeaderPackets bytes here.
HeaderPackets == 1

ReaderSteps(j) ==
    IF Transcodes(j.format, j.mp3)
    THEN IF j.remaining < HeaderPackets
         THEN { Fail(j, "DecoderError") }
         ELSE { [Goto(j, "read") EXCEPT
                    !.reader = "convert",
                    !.pos = @ + HeaderPackets,
                    !.remaining = @ - HeaderPackets] }
              \cup FailIf(j, "Decoder", "DecoderError")
              \cup FailIf(j, "Encoder", "EncoderError")
    ELSE { [Goto(j, "read") EXCEPT !.reader = "decrypt"] }


(***************************************************************************)
(* The readers.  The byte at position p of the decrypted source is p; the  *)
(* k-th byte the encoder produces is k.                                    *)
(***************************************************************************)
Bytes(from, n) == [i \in 1..n |-> (from + i - 1) % 256]

\* The lengths one read of the decrypting reader may return: at most the
\* buffer, at most what is left; of a long stream the first read returns all
\* but a tail of at most MaxBody bytes.
ReadSizes(remaining) ==
    {n \in 1..remaining :
        n <= BufferLen /\ (remaining <= MaxBody + 1 \/ n >= remaining - MaxBody)}

\* The next packet the decoder may return when `remaining` source bytes are
\* left: it spans src bytes, decodes to `samples` samples per channel, and the
\* encoder returns enc bytes for it.
DecodedPackets(remaining) ==
    [src : 1..remaining, samples : {0, 1}, enc : 0..MaxEnc]

\* convert.rs: AudioConverter::read_encoded, without its error results: the
\* byte count returned and the source bytes consumed.
RECURSIVE read_encoded(_)
read_encoded(remaining) ==
    IF remaining = 0
    THEN { [n |-> 0, used |-> 0] }
    ELSE UNION {
           IF p.samples = 0 \/ p.enc = 0
           THEN { [n |-> r.n, used |-> r.used + p.src]
                  : r \in read_encoded(remaining - p.src) }
           ELSE { [n |-> p.enc, used |-> p.src] }
           : p \in DecodedPackets(remaining) }

\* What reader.read(&mut buffer) returns with the reader's new position:
\* kind "ok" with n bytes, "interrupted", or "error" (any other ErrorKind).
\* AudioConverter::read maps every error to ErrorKind::Other.
ReadResults(j) ==
    IF j.reader = "convert"
    THEN { [kind |-> "ok", n |-> r.n, used |-> r.used,
            bytes |-> Bytes(j.current, r.n)] : r \in read_encoded(j.remaining) }
         \cup (IF May(j, "Decoder") \/ May(j, "Encoder") \/ May(j, "Read")
               THEN { [kind |-> "error", n |-> 0, used |-> 0, bytes |-> <<>>] }
               ELSE {})
    ELSE (IF j.remaining = 0
          THEN { [kind |-> "ok", n |-> 0, used |-> 0, bytes |-> <<>>] }
          ELSE { [kind |-> "ok", n |-> n, used |-> n, bytes |-> Bytes(j.pos, n)]
                 : n \in ReadSizes(j.remaining) })
         \cup (IF May(j, "Interrupted") /\ j.interrupts < MaxInterrupts
               THEN { [kind |-> "interrupted", n |-> 0, used |-> 0, bytes |-> <<>>] }
               ELSE {})
         \cup (IF May(j, "Read")
               THEN { [kind |-> "error", n |-> 0, used |-> 0, bytes |-> <<>>] }
               ELSE {})

\* Mutant of OnRead: every chunk is written to the output file as it arrives.
OnReadStreaming(j, r) ==
    CASE r.kind = "ok" /\ r.n = 0 ->
           Yield([j EXCEPT !.lastRead = "eof"], Finished, "write")
      [] r.kind = "ok" /\ r.n > 0 ->
           Yield([j EXCEPT !.file = @ \o r.bytes,
                           !.disk = [created |-> TRUE,
                                     ext |-> IF j.mp3 THEN "mp3" ELSE "ogg",
                                     bytes |-> j.file \o r.bytes],
                           !.current = @ + r.n,
                           !.pos = @ + r.used,
                           !.remaining = @ - r.used,
                           !.interrupts = 0,
                           !.lastRead = "ok"],
                 Progress(j.current + r.n, j.size), "read")
      [] r.kind = "interrupted" ->
           [j EXCEPT !.interrupts = @ + 1, !.lastRead = "interrupted",
                     !.out = Pending]
      [] OTHER ->
           [j EXCEPT !.lastRead = "error", !.pc = "done", !.out = StreamEnd]

\* Mutant of OnRead: an interrupted read is reported as progress of 0 bytes.
OnReadInterruptedShown(j, r) ==
    CASE r.kind = "ok" /\ r.n = 0 ->
           Yield([j EXCEPT !.lastRead = "eof"], Finished, "write")
      [] r.kind = "ok" /\ r.n > 0 ->
           Yield([j EXCEPT !.file = @ \o r.bytes,
                           !.current = @ + r.n,
                           !.pos = @ + r.used,
                           !.remaining = @ - r.used,
                           !.interrupts = 0,
                           !.lastRead = "ok"],
                 Progress(j.current + r.n, j.size), "read")
      [] r.kind = "interrupted" ->
           Yield([j EXCEPT !.interrupts = @ + 1, !.lastRead = "interrupted"],
                 Progress(j.current, j.size), "read")
      [] OTHER ->
           [j EXCEPT !.lastRead = "error", !.pc = "done", !.out = StreamEnd]

\* Mutant of OnRead: the whole buffer is appended, not its first n bytes.
OnReadWholeBuffer(j, r) ==
    CASE r.kind = "ok" /\ r.n = 0 ->
           Yield([j EXCEPT !.lastRead = "eof"], Finished, "write")
      [] r.kind = "ok" /\ r.n > 0 ->
           Yield([j EXCEPT !.file = @ \o r.bytes \o <<0>>,
                           !.current = @ + r.n,
                           !.pos = @ + r.used,
                           !.remaining = @ - r.used,
                           !.interrupts = 0,
                           !.lastRead = "ok"],
                 Progress(j.current + r.n, j.size), "read")
      [] r.kind = "interrupted" ->
           [j EXCEPT !.interrupts = @ + 1, !.lastRead = "interrupted",
                     !.out = Pending]
      [] OTHER ->
           [j EXCEPT !.lastRead = "error", !.pc = "done", !.out = StreamEnd]

\* Mutant of OnRead: a zero-length read is taken for an empty chunk and the
\* loop reads again.
OnReadZeroRetried(j, r) ==
    CASE r.kind = "ok" ->
           [j EXCEPT !.file = @ \o r.bytes,
                     !.current = @ + r.n,
                     !.pos = @ + r.used,
                     !.remaining = @ - r.used,
                     !.interrupts = 0,
                     !.lastRead = "ok",
                     !.out = Pending]
      [] r.kind = "interrupted" ->
           [j EXCEPT !.interrupts = @ + 1, !.lastRead = "interrupted",
                     !.out = Pending]
      [] OTHER ->
           [j EXCEPT !.lastRead = "error", !.pc = "done", !.out = StreamEnd]

\* The body of the loop for one result of reader.read.
OnRead(j, r) ==
    CASE r.kind = "ok" /\ r.n = 0 ->
           Yield([j EXCEPT !.lastRead = "eof"], Finished, "write")
      [] r.kind = "ok" /\ r.n > 0 ->
           Yield([j EXCEPT !.file = @ \o r.bytes,
                           !.current = @ + r.n,
                           !.pos = @ + r.used,
                           !.remaining = @ - r.used,
                           !.interrupts = 0,
                           !.lastRead = "ok"],
                 Progress(j.current + r.n, j.size), "read")
      [] r.kind = "interrupted" ->
           [j EXCEPT !.interrupts = @ + 1, !.lastRead = "interrupted",
                     !.out = Pending]
      [] OTHER ->
           [j EXCEPT !.lastRead = "error", !.pc = "done", !.out = StreamEnd]

\* One turn of the loop: reader.read(&mut buffer), then the match on its
\* result.  chunks keeps what the non-empty reads returned, in read order.
ReadSteps(j) ==
    { [OnRead(j, r) EXCEPT
          !.chunks = IF r.kind = "ok" /\ r.n > 0 THEN Append(@, r.bytes) ELSE @]
      : r \in ReadResults(j) }

\* let file_name = if mp3 { "... .mp3" } else { "... .ogg" };
FileExt(j) == IF j.mp3 THEN "mp3" ELSE "ogg"

\* What write_all leaves on disk when it fails.
PartialWrites(bytes) ==
    { SubSeq(bytes, 1, k) : k \in {0, Len(bytes) - 1} \cap (0..Len(bytes)) }

\* Mutant of WriteSteps: the results of create and write_all are ignored.
WriteStepsIgnoringErrors(j) ==
    { [j EXCEPT !.disk = d, !.pc = "done", !.out = StreamEnd]
      : d \in { [created |-> TRUE, ext |-> FileExt(j), bytes |-> b]
                : b \in {j.file} \cup PartialWrites(j.file) }
              \cup { j.disk } }

\* File::create(path)?.write_all(&file)?;
WriteSteps(j) ==
    { [j EXCEPT !.disk = [created |-> TRUE, ext |-> FileExt(j), bytes |-> j.file],
                !.pc = "done", !.out = StreamEnd] }
    \cup FailIf(j, "Create", "IoError")
    \cup UNION { FailIf([j EXCEPT !.disk = [created |-> TRUE, ext |-> FileExt(j),
                                            bytes |-> b]],
                        "Write", "IoError")
                 : b \in PartialWrites(j.file) }

\* One step of the generator.
Step(j) ==
    CASE j.pc = "init" -> StartSteps(j)
      [] j.pc = "artist" -> ArtistSteps(j)
      [] j.pc = "avail" -> AvailSteps(j)
      [] j.pc = "lookup" -> LookupSteps(j)
      [] j.pc = "open" -> OpenSteps(j)
      [] j.pc = "key" -> KeySteps(j)
      [] j.pc = "seek" -> SeekSteps(j)
      [] j.pc = "reader" -> ReaderSteps(j)
      [] j.pc = "read" -> ReadSteps(j)
      [] j.pc = "write" -> WriteSteps(j)
      [] OTHER -> {}

\* One poll of the stream (download.next().await): the generator runs until
\* it yields an item, ends or panics.
RECURSIVE Poll(_)
Poll(j) ==
    UNION { IF s.out = Pending THEN Poll(s) ELSE {s} : s \in Step(j) }

(***************************************************************************)
(* main.rs: run.  One job, polled by print_progress until it ends.         *)
(***************************************************************************)
DefaultJob == NewJob(0, NoTrack, "QUALITY", FALSE, FullEnv)

Init ==
    /\ job \in { NewJob(0, t, s, m, FullEnv)
                 : t \in PrimaryTracks, s \in DownloadOrderStrategy, m \in BOOLEAN }
    /\ queue = <<>>
    /\ client = "running"
    /\ submitted = 0
    /\ before = <<>>
    /\ dropped = {}
    /\ call = NoCall

JobVarsOnly == UNCHANGED <<queue, client, submitted, before, dropped, call>>

\* print_progress polls the stream for the first time.
Start ==
    /\ job.pc = "init"
    /\ job' \in StartSteps(job)
    /\ JobVarsOnly

\* the artist lookup returns.
ArtistGet ==
    /\ job.pc = "artist"
    /\ job' \in ArtistSteps(job)
    /\ JobVarsOnly

\* available_track is entered.
AvailableTrack ==
    /\ job.pc = "avail"
    /\ job' \in AvailSteps(job)
    /\ JobVarsOnly

\* one alternative's lookup completes.
LookupDone ==
    /\ job.pc = "lookup"
    /\ job' \in LookupSteps(job)
    /\ JobVarsOnly

\* file_id, then AudioFile::open returns.
OpenStream ==
    /\ job.pc = "open"
    /\ job' \in OpenSteps(job)
    /\ JobVarsOnly

\* the key request returns.
KeyRequest ==
    /\ job.pc = "key"
    /\ job' \in KeySteps(job)
    /\ JobVarsOnly

\* the rest of decrypt_stream.
SeekHeader ==
    /\ job.pc = "seek"
    /\ job' \in SeekSteps(job)
    /\ JobVarsOnly

\* reader picks the reader.
MakeReader ==
    /\ job.pc = "reader"
    /\ job' \in ReaderSteps(job)
    /\ JobVarsOnly

\* one pass of the read loop.
ReadChunk ==
    /\ job.pc = "read"
    /\ job' \in ReadSteps(job)
    /\ JobVarsOnly

\* the stream is polled after Finished.
WriteFile ==
    /\ job.pc = "write"
    /\ job' \in WriteSteps(job)
    /\ JobVarsOnly

Next ==
    \/ Start
    \/ ArtistGet
    \/ AvailableTrack
    \/ LookupDone
    \/ OpenStream
    \/ KeyRequest
    \/ SeekHeader
    \/ MakeReader
    \/ ReadChunk
    \/ WriteFile

Spec == Init /\ [][Next]_vars

\* The jobs whose runs are followed to their end: every track with at most
\* MaxAltsFair alternatives.
MaxAltsFair == 1

FairInit ==
    /\ job \in { NewJob(0, t, s, m, FullEnv)
                 : t \in {p \in PrimaryTracks : Len(p.alternatives) <= MaxAltsFair},
                   s \in DownloadOrderStrategy, m \in BOOLEAN }
    /\ queue = <<>>
    /\ client = "running"
    /\ submitted = 0
    /\ before = <<>>
    /\ dropped = {}
    /\ call = NoCall

\* print_progress polls the stream until it has ended or has yielded an
\* error, and every call the job awaits returns: a step that can be taken
\* is taken.
FairSpec == FairInit /\ [][Next]_vars /\ WF_vars(Next)


(***************************************************************************)
(* The download queue.                                                     *)
(***************************************************************************)
\* The jobs put in the queue and what may happen to each of them.
QueueTracks ==
    { [id |-> 0, files |-> {"OGG_VORBIS_320"}, alternatives |-> <<>>,
       available |-> TRUE, hasArtist |-> TRUE] }

QueueEnvs ==
    { [faults |-> f, raws |-> {SPOTIFY_OGG_HEADER_END + 1}]
      : f \in { {}, {"Read"}, {"Key"} } }
    \cup { [faults |-> {}, raws |-> {SPOTIFY_OGG_HEADER_END - 1}] }

\* Mutant of CanSubmit: the limit is compared off by one.
CanSubmitOffByOne(q) == Len(q) <= concurrent_downloads

\* The queue holds at most concurrent_downloads streams.
CanSubmit(q) == Len(q) < concurrent_downloads

\* A stream returned by download_audio is put in the queue.
Submit ==
    /\ client = "running"
    /\ submitted < MaxSubmits
    /\ CanSubmit(queue)
    /\ \E t \in QueueTracks, e \in QueueEnvs :
          queue' = Append(queue, NewJob(submitted + 1, t, "QUALITY", FALSE, e))
    /\ submitted' = submitted + 1
    /\ before' = <<>>
    /\ dropped' = {}
    /\ UNCHANGED <<job, client, call>>

\* if let Some(Ok(progress)) = download.next().await, and not Finished.
Retained(s) == s.out.type \in {"Started", "Progress"}

\* download.rs: remove_finished.  rest is what is left to pop, kept is
\* new_download_progress_queue, gone the streams dropped so far.
RECURSIVE remove_finished(_, _, _)
remove_finished(rest, kept, gone) ==
    IF rest = <<>>
    THEN { [queue |-> kept, dropped |-> gone, client |-> "running"] }
    ELSE LET download == rest[Len(rest)]
             popped == SubSeq(rest, 1, Len(rest) - 1)
         IN  UNION {
               IF s.out = Panic
               THEN { [queue |-> popped, dropped |-> gone \cup {s},
                       client |-> "panicked"] }
               ELSE IF Retained(s)
               THEN remove_finished(popped, Append(kept, s), gone)
               ELSE remove_finished(popped, kept, gone \cup {s})
               : s \in Poll(download) }

RemoveFinished ==
    /\ client = "running"
    /\ queue # <<>>
    /\ \E r \in remove_finished(queue, <<>>, {}) :
          /\ queue' = r.queue
          /\ dropped' = r.dropped
          /\ client' = r.client
    /\ before' = queue
    /\ UNCHANGED <<job, submitted, call>>

QueueInit ==
    /\ job = DefaultJob
    /\ queue = <<>>
    /\ client = "running"
    /\ submitted = 0
    /\ before = <<>>
    /\ dropped = {}
    /\ call = NoCall

QueueNext ==
    \/ Submit
    \/ RemoveFinished

QueueSpec == QueueInit /\ [][QueueNext]_vars



(***************************************************************************)
(* Calls of single functions: the arguments are drawn in the initial       *)
(* state, the action of a function records its result.                     *)
(***************************************************************************)
NewCall(op, args) == [op |-> op, done |-> FALSE, args |-> args, result |-> <<>>]

Return(c, result) == [c EXCEPT !.done = TRUE, !.result = result]

CallVarsOnly == UNCHANGED <<job, queue, client, submitted, before, dropped>>

\* file_id for every strategy and every key set of Track::files.
FileIdCalls ==
    { NewCall("file_id",
              [strategy |-> s,
               track |-> [id |-> 0, files |-> f, alternatives |-> <<>>,
                          available |-> TRUE, hasArtist |-> TRUE]])
      : s \in DownloadOrderStrategy, f \in SUBSET FileFormat }

CallFileId ==
    /\ call.op = "file_id"
    /\ ~call.done
    /\ call' = Return(call, file_id(call.args.strategy, call.args.track))
    /\ CallVarsOnly

\* formats for every strategy.
FormatsCalls ==
    { NewCall("formats", [strategy |-> s]) : s \in DownloadOrderStrategy }

CallFormats ==
    /\ call.op = "formats"
    /\ ~call.done
    /\ call' = Return(call, formats(call.args.strategy))
    /\ CallVarsOnly

(***************************************************************************)
(* convert.rs: AudioConverter over a given sequence of decoder packets.    *)
(* A packet is what read_dec_packet returns for it (an error, or two       *)
(* channels of `samples` samples each) and what the encoder returns for    *)
(* its samples: a byte count, or -1 for an error.                          *)
(***************************************************************************)
MaxPackets == 3

Packets ==
    [dec : {"ok"}, samples : {0, 1}, enc : -1..MaxEnc]
        \cup { [dec |-> "err", samples |-> 0, enc |-> 0] }

PacketSeqs == UNION { [1..n -> Packets] : n \in 0..MaxPackets }

\* read_encoded with the decoder standing before packet pos: the result,
\* the byte count, and where the decoder stands afterwards.
RECURSIVE read_encoded_packets(_, _)
read_encoded_packets(packets, pos) ==
    IF pos > Len(packets)
    THEN [kind |-> "ok", n |-> 0, next |-> pos]
    ELSE LET p == packets[pos]
         IN  IF p.dec = "err"
             THEN [kind |-> "DecoderError", n |-> 0, next |-> pos + 1]
             ELSE IF p.samples = 0
             THEN read_encoded_packets(packets, pos + 1)
             ELSE IF p.enc = -1
             THEN [kind |-> "EncoderError", n |-> 0, next |-> pos + 1]
             ELSE IF p.enc = 0
             THEN read_encoded_packets(packets, pos + 1)
             ELSE [kind |-> "ok", n |-> p.enc, next |-> pos + 1]

\* Mutant of ConverterRead: one packet per call, whatever it encodes to.
ConverterReadOnePacket(packets, pos) ==
    IF pos > Len(packets)
    THEN [kind |-> "ok", n |-> 0, next |-> pos]
    ELSE LET p == packets[pos]
         IN  IF p.dec = "err" \/ (p.samples > 0 /\ p.enc = -1)
             THEN [kind |-> "Other", n |-> 0, next |-> pos + 1]
             ELSE [kind |-> "ok",
                   n |-> IF p.samples = 0 THEN 0 ELSE p.enc,
                   next |-> pos + 1]

\* impl Read for AudioConverter: read_encoded, every error as ErrorKind::Other.
ConverterRead(packets, pos) ==
    LET r == read_encoded_packets(packets, pos)
    IN  IF r.kind = "ok" THEN r ELSE [r EXCEPT !.kind = "Other"]

\* A converter over each packet sequence, no read made yet.
ConverterCalls ==
    { [op |-> "convert", done |-> FALSE, args |-> [packets |-> ps],
       result |-> [pos |-> 1, log |-> <<>>]] : ps \in PacketSeqs }

\* One reader.read(&mut buffer) on the converter, logged with the packets it
\* took; reading stops with the first read that returns 0.
CallConverterRead ==
    /\ call.op = "convert"
    /\ ~call.done
    /\ LET r == ConverterRead(call.args.packets, call.result.pos)
       IN  call' = [call EXCEPT
                       !.done = (r.kind = "ok" /\ r.n = 0),
                       !.result = [pos |-> r.next,
                                   log |-> Append(@.log,
                                              [from |-> @.pos, kind |-> r.kind,
                                               n |-> r.n, next |-> r.next])]]
    /\ CallVarsOnly

(***************************************************************************)
(* parse.rs.  A string is a sequence of tokens: the delimiters ":" and "/" *)
(* and words, which hold neither.  A piece of a string (a path segment, a  *)
(* token between colons) is again such a sequence, empty for "".           *)
(***************************************************************************)
MaxSegments == 3

\* A word that SpotifyId parses as an id, and the kinds from_id matches.
ValidIds == {"4uLU6hMCjMI75M1A2tKUQC"}

Kinds == {"track", "album", "playlist", "show", "episode"}

\* What may stand between two delimiters: an id, a kind, another word,
\* nothing, or text that itself holds a ":".
Segments == ValidIds \cup {"track", "album", "intl-de", "", "a:4uLU6hMCjMI75M1A2tKUQC"}

Hosts == {"open.spotify.com", "OPEN.SPOTIFY.COM", "example.com"}

Schemes == {"https", "spotify"}

Tuples(S, max) == UNION { [1..n -> S] : n \in 0..max }

\* What the user may type: scheme://host/seg/.., spotify:tok:.., other text.
Shapes ==
    [form : {"url"}, scheme : Schemes, host : Hosts,
     parts : Tuples(Segments, MaxSegments)]
        \cup [form : {"uri"}, scheme : {"spotify"}, host : {""},
              parts : Tuples(Segments, MaxSegments)]
        \cup [form : {"text"}, scheme : {""},
              host : {"not-a-url-or-uri", "open.spotify.com"},
              parts : Tuples(Segments, 2)]

Word(w) ==
    CASE w = "" -> <<>>
      [] w = "a:4uLU6hMCjMI75M1A2tKUQC" -> <<"a", ":", "4uLU6hMCjMI75M1A2tKUQC">>
      [] OTHER -> <<w>>

RECURSIVE Joined(_, _)
Joined(parts, d) ==
    IF parts = <<>> THEN <<>>
    ELSE <<d>> \o Word(Head(parts)) \o Joined(Tail(parts), d)

\* The string of a shape.
Render(shape) ==
    CASE shape.form = "url" ->
           <<shape.scheme, ":", "/", "/", shape.host>> \o Joined(shape.parts, "/")
      [] shape.form = "uri" ->
           <<shape.scheme>> \o Joined(shape.parts, ":")
      [] OTHER ->
           <<shape.host>> \o Joined(shape.parts, "/")

\* str::split: the pieces between the occurrences of d, at least one piece.
RECURSIVE Split(_, _)
Split(str, d) ==
    IF \A i \in 1..Len(str) : str[i] # d
    THEN <<str>>
    ELSE LET i == Min({k \in 1..Len(str) : str[k] = d})
         IN  <<SubSeq(str, 1, i - 1)>> \o Split(SubSeq(str, i + 1, Len(str)), d)

StartsWith(str, prefix) ==
    Len(str) >= Len(prefix) /\ SubSeq(str, 1, Len(prefix)) = prefix

Rest(str, n) == SubSeq(str, n + 1, Len(str))

\* Url::parse, url.domain() and url.path_segments(): a scheme and ":" are
\* required; a host follows "//" and ends at the next "/"; the path after it
\* is split at "/" behind its leading "/", the empty path counting as "/".
UrlParse(input) ==
    IF ~(Len(input) >= 2 /\ input[1] \notin {":", "/"} /\ input[2] = ":")
    THEN [ok |-> FALSE, domain |-> <<>>, segments |-> <<>>]
    ELSE IF ~StartsWith(Rest(input, 2), <<"/", "/">>)
    THEN [ok |-> TRUE, domain |-> <<>>, segments |-> <<>>]
    ELSE LET pieces == Split(Rest(input, 4), "/")
         IN  IF Len(pieces[1]) # 1 \/ ":" \in Range(pieces[1])
             THEN [ok |-> FALSE, domain |-> <<>>, segments |-> <<>>]
             ELSE [ok |-> TRUE, domain |-> pieces[1],
                   segments |-> IF Len(pieces) = 1 THEN << <<>> >>
                                ELSE Tail(pieces)]

\* domain.to_lowercase().ends_with("spotify.com")
to_lowercase(domain) ==
    IF domain = "OPEN.SPOTIFY.COM" THEN "open.spotify.com" ELSE domain

EndsWithSpotifyCom(domain) == domain \in {"open.spotify.com", "spotify.com"}

\* What an attempt (from_url, or the id branch of from_id_or_url) came to:
\* the (item_type, spotify_id) it handed to from_id, the item or the error,
\* and the requests it sent to the catalog.
NotAttempted ==
    [attempted |-> FALSE, ok |-> FALSE, pair |-> <<>>, item |-> <<>>,
     error |-> "none", lookups |-> <<>>]

Failed(pair, error, lookups) ==
    [attempted |-> TRUE, ok |-> FALSE, pair |-> pair, item |-> <<>>,
     error |-> error, lookups |-> lookups]

Found(pair, item, lookups) ==
    [attempted |-> TRUE, ok |-> TRUE, pair |-> pair, item |-> item,
     error |-> "none", lookups |-> lookups]

\* SpotifyId::from_uri: the text after the last ":" has to be an id.
SpotifyIdFromUri(uri) ==
    /\ StartsWith(uri, <<"spotify", ":">>)
    /\ Len(uri) >= 4
    /\ uri[Len(uri)] \in ValidIds
    /\ uri[Len(uri) - 1] = ":"

\* The request from_id sends first for a kind, and the one it sends for
\* each child of an album, playlist or show.
Getter ==
    [track |-> "Track::get", album |-> "Album::get",
     playlist |-> "Playlist::get", show |-> "Show::get",
     episode |-> "Episode::get"]

ChildGetter ==
    [album |-> "Track::get", playlist |-> "Track::get", show |-> "Episode::get"]

\* from_id; found: whether the catalog answers the first request.  Children
\* that fail to load are left out, the item is returned all the same.
from_id(item_type, spotify_id, found) ==
    LET pair == <<item_type, spotify_id>>
        uri == <<"spotify", ":">> \o item_type \o <<":">> \o spotify_id
    IN  IF ~SpotifyIdFromUri(uri)
        THEN Failed(pair, "InvalidOrUnsupportedId", <<>>)
        ELSE IF Len(item_type) # 1 \/ item_type[1] \notin Kinds
        THEN Failed(pair, "InvalidOrUnsupportedId", <<>>)
        ELSE LET kind == item_type[1]
             IN  IF ~found
                 THEN Failed(pair, "DownloaderError", <<Getter[kind]>>)
                 ELSE Found(pair, [kind |-> kind, id |-> uri[Len(uri)]],
                            IF kind \in DOMAIN ChildGetter
                            THEN <<Getter[kind], ChildGetter[kind]>>
                            ELSE <<Getter[kind]>>)

\* Mutant of from_url: the id is the segment after the kind.
from_url_second(input, found) ==
    LET url == UrlParse(input)
    IN  IF ~url.ok \/ url.domain = <<>>
        THEN Failed(<<>>, "Invalid", <<>>)
        ELSE IF ~EndsWithSpotifyCom(to_lowercase(url.domain[1]))
        THEN Failed(<<>>, "Invalid", <<>>)
        ELSE IF Len(url.segments) < 2
        THEN Failed(<<>>, "Invalid", <<>>)
        ELSE from_id(url.segments[1], url.segments[2], found)

\* from_url: segments.next() is the kind, segments.next_back() the id, taken
\* from what next() left.
from_url(input, found) ==
    LET url == UrlParse(input)
    IN  IF ~url.ok \/ url.domain = <<>>
        THEN Failed(<<>>, "Invalid", <<>>)
        ELSE IF ~EndsWithSpotifyCom(to_lowercase(url.domain[1]))
        THEN Failed(<<>>, "Invalid", <<>>)
        ELSE LET item_type == Head(url.segments)
                 left == Tail(url.segments)
             IN  IF left = <<>>
                 THEN Failed(<<>>, "Invalid", <<>>)
                 ELSE from_id(item_type, left[Len(left)], found)

\* Mutant of from_uri_input: a missing id is taken to be the empty id.
from_uri_input_lenient(input, found) ==
    IF ~StartsWith(input, <<"spotify", ":">>)
    THEN Failed(<<>>, "Invalid", <<>>)
    ELSE LET splits == Split(Rest(input, 2), ":")
         IN  from_id(splits[1], IF Len(splits) < 2 THEN <<>> ELSE splits[2],
                     found)

\* The id branch of from_id_or_url.
from_uri_input(input, found) ==
    IF ~StartsWith(input, <<"spotify", ":">>)
    THEN Failed(<<>>, "Invalid", <<>>)
    ELSE LET splits == Split(Rest(input, 2), ":")
         IN  IF Len(splits) < 2
             THEN Failed(<<>>, "Invalid", <<>>)
             ELSE from_id(splits[1], splits[2], found)

\* Mutant of from_id_or_url: an error of a URL attempt that reached from_id
\* is returned as it is.
from_id_or_url_first_error(input, found) ==
    LET url == from_url(input, found)
    IN  IF url.ok \/ url.pair # <<>>
        THEN [result |-> url, url |-> url, uri |-> NotAttempted]
        ELSE [result |-> from_uri_input(input, found), url |-> url,
              uri |-> from_uri_input(input, found)]

\* from_id_or_url: the result, with what either attempt came to.
from_id_or_url(input, found) ==
    LET url == from_url(input, found)
    IN  IF url.ok
        THEN [result |-> url, url |-> url, uri |-> NotAttempted]
        ELSE [result |-> from_uri_input(input, found), url |-> url,
              uri |-> from_uri_input(input, found)]

ResolveCalls ==
    { NewCall("from_id_or_url",
              [shape |-> sh, input |-> Render(sh), found |-> f])
      : sh \in Shapes, f \in BOOLEAN }

CallFromIdOrUrl ==
    /\ call.op = "from_id_or_url"
    /\ ~call.done
    /\ call' = Return(call, from_id_or_url(call.args.input, call.args.found))
    /\ CallVarsOnly

CallInit ==
    /\ job = DefaultJob
    /\ queue = <<>>
    /\ client = "running"
    /\ submitted = 0
    /\ before = <<>>
    /\ dropped = {}
    /\ call \in FileIdCalls \cup FormatsCalls \cup ConverterCalls \cup ResolveCalls

CallNext ==
    \/ CallFileId
    \/ CallFormats
    \/ CallConverterRead
    \/ CallFromIdOrUrl

CallSpec == CallInit /\ [][CallNext]_vars

(***************************************************************************)
(* The claims.                                                             *)
(***************************************************************************)
Terminal(e) == e.type \in {"Finished", "Err"}

\* C1: the event sequence of a job has exactly one Started, which is first;
\* no event follows a terminal event (Finished or a failure item); and a job
\* whose stream has ended has a terminal event as its last event.
C1_EventOrder ==
    LET ev == job.events
    IN  /\ \A i \in 1..Len(ev) : (ev[i] = Started) <=> (i = 1)
        /\ \A i \in 1..(Len(ev) - 1) : ~Terminal(ev[i])
        /\ job.pc = "done" => (Len(ev) > 0 /\ Terminal(ev[Len(ev)]))

\* C2: in every Progress event current <= total, current does not decrease
\* from one Progress event to the next, and total is the decrypted
\* (post-header) length reader returned, with or without transcoding.
C2_ProgressWithinTotal ==
    LET ev == job.events
        prog == {i \in 1..Len(ev) : ev[i].type = "Progress"}
    IN  /\ \A i \in prog : ev[i].current <= ev[i].total /\ ev[i].total = job.size
        /\ \A i, k \in prog : i <= k => ev[i].current <= ev[k].current

\* C3: a read error whose kind is not Interrupted ends the job with a failure
\* item as the last event of its sequence.
C3_ReadErrorSurfaced ==
    job.lastRead = "error" =>
        /\ job.pc = "done"
        /\ Len(job.events) > 0
        /\ job.events[Len(job.events)].type = "Err"

\* C4: the zero-length read emits Finished and leaves the output file
\* untouched; the step after it either writes the whole accumulator and emits
\* nothing, or fails and emits the failure after Finished, which stays in the
\* sequence.
C4_FinishedThenWrite ==
    [][ /\ (job.pc = "read" /\ job'.pc = "write") =>
              /\ job'.events = Append(job.events, Finished)
              /\ job.disk = NoDisk
              /\ job'.disk = NoDisk
        /\ (job.pc = "write" /\ job' # job) =>
              /\ job.events[Len(job.events)] = Finished
              /\ job'.pc = "done"
              /\ \/ /\ job'.events = job.events
                    /\ job'.disk.created
                    /\ job'.disk.bytes = job.file
                 \/ job'.events = Append(job.events, Err("IoError"))
      ]_vars

C4_Witness ==
    LET ev == job.events
    IN  /\ job.pc = "done"
        /\ Len(ev) >= 3
        /\ ev[Len(ev) - 1] = Finished
        /\ ev[Len(ev)] = Err("IoError")
        /\ job.disk.created

\* C5: the output file exists only once Finished has been emitted and the
\* write step has run: a job that stopped or failed earlier has no file.
C5_NoFileBeforeWriteStep ==
    job.disk # NoDisk =>
        /\ \E i \in 1..Len(job.events) : job.events[i] = Finished
        /\ job.pc = "done"

C5_Witness ==
    /\ job.pc = "done"
    /\ job.lastRead = "error"
    /\ job.current > 0
    /\ job.disk = NoDisk

\* C6: the extension of the written file is the codec of the bytes written:
\* mp3 when the job transcoded, otherwise the codec of the selected variant.
C6_ExtensionIsCodec ==
    job.disk.created =>
        job.disk.ext = (IF job.reader = "convert" THEN "mp3"
                        ELSE IF is_ogg(job.format) THEN "ogg" ELSE "mp3")

\* C7: after remove_finished every stream it found in the queue is either
\* still in the queue exactly as it was, or was dropped with Finished as the
\* event it was found to have.
C7_ReapKeepsUnfinished ==
    \A i \in 1..Len(before) :
        \/ \E k \in 1..Len(queue) : queue[k] = before[i]
        \/ \E d \in dropped : d.id = before[i].id /\ d.out = Finished

\* C8: the queue never holds more than concurrent_downloads streams.
C8_QueueBounded == Len(queue) <= concurrent_downloads

C8_Witness ==
    /\ Len(queue) = concurrent_downloads
    /\ submitted > concurrent_downloads
    /\ before # <<>>

\* C9: for a track with a non-empty variant mapping available_track returns
\* the track itself and starts no lookup, whatever its alternatives and its
\* availability flag.
C9_PrimaryReturnedUnchanged ==
    [][ (job.pc = "avail" /\ job.track.files # {} /\ job' # job) =>
            /\ job'.pc = "open"
            /\ job'.chosen = job.track
            /\ job'.track = job.track
            /\ job'.lookups = 0
            /\ job'.pending = {}
      ]_vars

C9_Witness ==
    /\ job.pc = "open"
    /\ job.track.files # {}
    /\ job.track.alternatives # <<>>
    /\ ~job.track.available
    /\ job.chosen = job.track

\* C10: for a track with an empty variant mapping, whatever the order in
\* which the lookups complete, available_track returns an alternative whose
\* lookup succeeded with the availability flag set if there is one, and none
\* (the job fails with Unavailable) if there is not or the list is empty.
C10_AvailableAlternative ==
    [][ /\ (job.pc = "lookup" /\ job'.pc # "lookup") =>
              LET good == {a \in Range(job.track.alternatives) :
                             job.world[a].ok /\ job.world[a].track.available}
              IN  IF good # {}
                  THEN /\ job'.pc = "open"
                       /\ \E a \in good : job'.chosen = job.world[a].track
                       /\ job'.chosen # job.track
                  ELSE /\ job'.pc = "done"
                       /\ job'.out = Err("Unavailable")
                       /\ job'.chosen = NoTrack
        /\ (job.pc = "avail" /\ job.track.files = {} /\ job' # job) =>
              IF job.track.alternatives = <<>>
              THEN job'.out = Err("Unavailable") /\ job'.pc = "done"
              ELSE /\ job'.pc = "lookup"
                   /\ job'.pending = Range(job.track.alternatives)
      ]_vars

C10_Witness ==
    /\ job.pc = "open"
    /\ job.track.files = {}
    /\ job.chosen.id \in Range(job.track.alternatives)
    /\ \E a \in Range(job.track.alternatives) :
          /\ a # job.chosen.id
          /\ a \notin job.pending


\* C11: file_id returns the variant earliest in the strategy's preference
\* list among the keys of the mapping, with that key's file reference, and
\* fails exactly when no variant of the list is a key.
C11_FirstPreferredVariant ==
    (call.op = "file_id" /\ call.done) =>
        LET fs == formats(call.args.strategy)
            files == call.args.track.files
            r == call.result
        IN  /\ r.ok <=> (\E i \in 1..Len(fs) : fs[i] \in files)
            /\ r.ok =>
                 \E i \in 1..Len(fs) :
                    /\ fs[i] = r.format
                    /\ fs[i] \in files
                    /\ \A k \in 1..(i - 1) : fs[k] \notin files
                    /\ r.file_id = <<call.args.track.id, fs[i]>>

C11_Witness ==
    /\ call.op = "file_id"
    /\ call.done
    /\ call.args.strategy = "QUALITY"
    /\ call.args.track.files = {"OGG_VORBIS_320", "MP3_256", "MP3_96"}
    /\ call.result.format = "OGG_VORBIS_320"


\* C12: once decrypt_stream has returned, the size it reports is the raw
\* length minus 0xA7 for an OGG Vorbis variant (the reader standing past the
\* header) and the raw length otherwise, and is never larger than the raw
\* length, raw lengths below 0xA7 included.
C12_SizeIsRawMinusHeader ==
    job.pc = "reader" =>
        /\ job.size = job.raw - HeaderOffset(job.format)
        /\ job.pos = HeaderOffset(job.format)
        /\ job.size <= job.raw


\* C13: over every packet sequence, a read on the converter returns 0 only
\* with the decoder at end of stream; every read before that returns a
\* positive count or an error, and the reads take consecutive, disjoint runs
\* of packets, so that each packet is consumed by exactly one read.
C13_ZeroOnlyAtEndOfStream ==
    call.op = "convert" =>
        LET packets == call.args.packets
            log == call.result.log
        IN  /\ \A i \in 1..Len(log) :
                 /\ (log[i].kind = "ok" /\ log[i].n = 0)
                        => /\ log[i].next = Len(packets) + 1
                           /\ i = Len(log)
                 /\ i < Len(log) => (log[i].n > 0 \/ log[i].kind = "Other")
                 /\ log[i].from = IF i = 1 THEN 1 ELSE log[i - 1].next
                 /\ log[i].next <= Len(packets) + 1
                 /\ log[i].from <= Len(packets) => log[i].next > log[i].from
            /\ call.result.pos = IF log = <<>> THEN 1 ELSE log[Len(log)].next

\* A read that skipped an empty packet and a packet the encoder returned
\* nothing for, then end of stream.
C13_Witness ==
    /\ call.op = "convert"
    /\ call.done
    /\ Len(call.result.log) = 2
    /\ call.result.log[1].n > 0
    /\ call.result.log[1].next = 4
    /\ call.args.packets[1].samples = 0
    /\ call.args.packets[2].samples = 1
    /\ call.args.packets[2].enc = 0


\* C14: a job that has made any external call (artist lookup, lookup of an
\* alternative track, stream open, key request) has emitted Started first.
C14_StartedBeforeAnyCall ==
    job.net # {} => (job.events # <<>> /\ job.events[1] = Started)

C14_Witness ==
    /\ job.net = {"Artist::get", "Track::get", "AudioFile::open",
                  "AudioKey::request"}
    /\ job.events = <<Started>>


\* A finished call of from_id_or_url on a URL whose host ends with the
\* catalog domain.
CatalogUrlResolved ==
    /\ call.op = "from_id_or_url"
    /\ call.done
    /\ call.args.shape.form = "url"
    /\ EndsWithSpotifyCom(to_lowercase(call.args.shape.host))

\* The URL attempt took (first part, last part) for (kind, id), and the call
\* came to what the call on spotify:first:last comes to.
SameAsCanonicalUri ==
    LET parts == call.args.shape.parts
        first == parts[1]
        last == parts[Len(parts)]
        canonical == Render([form |-> "uri", scheme |-> "spotify",
                             host |-> "", parts |-> <<first, last>>])
        other == from_id_or_url(canonical, call.args.found)
    IN  /\ call.result.url.pair = <<Word(first), Word(last)>>
        /\ call.result.result.ok = other.result.ok
        /\ call.result.result.item = other.result.item
        /\ other.uri.pair = <<Word(first), Word(last)>>

\* C15, as stated: a URL of the catalog domain resolves to the same
\* (kind, id) as spotify:kind:id, the kind being its first and the id its
\* last path segment, whatever the number of path segments.
C15_UrlSameAsUri ==
    (CatalogUrlResolved /\ Len(call.args.shape.parts) >= 1)
        => SameAsCanonicalUri

\* C15, amended: the same, for URLs with at least two path segments, the
\* first and the last of them without ":".
C15_UrlSameAsUriTwoSegments ==
    (/\ CatalogUrlResolved
     /\ Len(call.args.shape.parts) >= 2
     /\ ":" \notin Range(Word(call.args.shape.parts[1]))
     /\ ":" \notin Range(Word(call.args.shape.parts[Len(call.args.shape.parts)])))
        => SameAsCanonicalUri

C15_Witness ==
    /\ CatalogUrlResolved
    /\ Len(call.args.shape.parts) = 3
    /\ call.args.shape.parts[2] = "intl-de"
    /\ call.result.result.ok
    /\ call.result.result.item.kind = "album"

\* The input is spotify: followed by at least two tokens.
HasUriForm ==
    /\ Len(call.args.input) >= 2
    /\ call.args.input[1] = "spotify"
    /\ call.args.input[2] = ":"
    /\ \E i \in 3..Len(call.args.input) : call.args.input[i] = ":"

\* C16: an input that is neither a URL of the catalog domain nor spotify:
\* followed by at least two tokens fails with Invalid, and no request has
\* been sent to the catalog.
C16_MalformedIsInvalid ==
    (/\ call.op = "from_id_or_url"
     /\ call.done
     /\ ~(/\ call.args.shape.form = "url"
          /\ EndsWithSpotifyCom(to_lowercase(call.args.shape.host)))
     /\ ~HasUriForm)
        => /\ ~call.result.result.ok
           /\ call.result.result.error = "Invalid"
           /\ call.result.url.lookups = <<>>
           /\ call.result.uri.lookups = <<>>

C16_Witness ==
    /\ call.op = "from_id_or_url"
    /\ call.done
    /\ call.args.shape.form = "uri"
    /\ call.args.shape.parts = <<"track">>
    /\ call.result.result.error = "Invalid"

\* C20: from_id_or_url fails only when both attempts fail; the id attempt
\* is made whenever the URL attempt fails, whatever it failed with, and it
\* is the id attempt's outcome that is returned.
C20_BothAttemptsFail ==
    (call.op = "from_id_or_url" /\ call.done) =>
        LET r == call.result
        IN  /\ r.url.attempted
            /\ ~r.result.ok => (~r.url.ok /\ r.uri.attempted /\ ~r.uri.ok)
            /\ ~r.url.ok => (r.uri.attempted /\ r.result = r.uri)
            /\ r.url.ok => (~r.uri.attempted /\ r.result = r.url)

\* A catalog URL whose lookup failed: the error returned is the id
\* attempt's Invalid.
C20_Witness ==
    /\ CatalogUrlResolved
    /\ call.result.url.error = "DownloaderError"
    /\ call.result.url.lookups = <<"Track::get">>
    /\ call.result.uri.attempted
    /\ call.result.result.error = "Invalid"


\* C17: a chunk read that reports Interrupted is retried and changes nothing
\* else: no event, the same byte count, the same accumulated bytes, the same
\* file on disk, and the job is still in its read loop.
C17_InterruptedReadInvisible ==
    [][(job.pc = "read" /\ job'.interrupts > job.interrupts) =>
          /\ job'.pc = "read"
          /\ job'.events = job.events
          /\ job'.out = Pending
          /\ job'.current = job.current
          /\ job'.file = job.file
          /\ job'.disk = job.disk
          /\ job'.pos = job.pos
          /\ job'.remaining = job.remaining
          /\ job'.size = job.size
          /\ job'.reader = job.reader]_vars

\* Two interrupted reads in a row after the first chunk.
C17_Witness ==
    /\ job.pc = "read"
    /\ job.lastRead = "interrupted"
    /\ job.interrupts = 2
    /\ job.current > 0
    /\ job.remaining > 0
    /\ Len(job.events) = 2


\* C18: the job reads through the converter exactly when the selected
\* variant is an OGG Vorbis variant and mp3 was asked for; otherwise it reads
\* the decrypting reader, and no error of a decoder or an encoder arises.
C18_ConverterIffOggAndMp3 ==
    /\ job.pc \in {"read", "write"} => job.reader \in {"convert", "decrypt"}
    /\ job.reader = "convert" => (is_ogg(job.format) /\ job.mp3)
    /\ job.reader = "decrypt" => ~(is_ogg(job.format) /\ job.mp3)
    /\ (\E i \in 1..Len(job.events) :
            job.events[i] \in {Err("DecoderError"), Err("EncoderError")})
          => (is_ogg(job.format) /\ job.mp3)

\* Both readers are reached with mp3 asked for: the converter over an OGG
\* variant, the decrypting reader over an MP3 variant.
C18_Witness ==
    /\ job.pc = "read"
    /\ job.mp3
    /\ job.reader = "decrypt"
    /\ job.format = "MP3_320"
    /\ job.current > 0

\* C19: a stream whose reader returned a zero-length read, and which
\* remove_finished has seen and dropped, has its accumulated bytes in the
\* output file.
C19_FinishedJobWritten ==
    \A d \in dropped :
        d.lastRead = "eof" =>
            (d.disk.created /\ d.disk.bytes = d.file)


\* C21: a job whose stream is polled to exhaustion comes to an end, every
\* awaited call returning and the reader reporting Interrupted at most
\* MaxInterrupts times in a row: the stream has ended, has yielded the error
\* at which print_progress stops, or the job has panicked.
C21_JobTerminates == <>(job.pc \in {"done", "panicked"})

\* A job that came to its end through interrupted reads, the zero-length
\* read and the write of the file.
C21_Witness ==
    /\ job.pc = "done"
    /\ job.lastRead = "eof"
    /\ job.disk.created
    /\ job.out = StreamEnd
    /\ Len(job.events) >= 3


\* The bitrate class in the name of a variant.
BitrateClass(format) ==
    CASE format \in {"MP3_320", "OGG_VORBIS_320"} -> 320
      [] format = "MP3_256" -> 256
      [] format \in {"MP3_160", "MP3_160_ENC", "OGG_VORBIS_160"} -> 160
      [] format \in {"MP3_96", "OGG_VORBIS_96"} -> 96

\* list keeps the order sub has: what comes earlier in sub comes earlier in
\* list.
KeepsOrder(list, sub) ==
    \A i, k \in 1..Len(sub) :
        i < k => \E a, b \in 1..Len(list) :
                    a < b /\ list[a] = sub[i] /\ list[b] = sub[k]

\* C22: the QUALITY list holds every variant of the MP3 list and of the OGG
\* list exactly once and nothing else, keeps the order of either list, and
\* never rises in bitrate class from first to last.
C22_QualityListOrdered ==
    (call.op = "formats" /\ call.done /\ call.args.strategy = "QUALITY") =>
        LET q == call.result
            mp3 == formats("MP3")
            ogg == formats("OGG")
        IN  /\ Range(q) = Range(mp3) \cup Range(ogg)
            /\ \A i, k \in 1..Len(q) : i # k => q[i] # q[k]
            /\ Len(q) = Len(mp3) + Len(ogg)
            /\ KeepsOrder(q, mp3)
            /\ KeepsOrder(q, ogg)
            /\ \A i, k \in 1..Len(q) :
                 i < k => BitrateClass(q[i]) >= BitrateClass(q[k])

C22_Witness ==
    /\ call.op = "formats"
    /\ call.done
    /\ call.args.strategy = "QUALITY"
    /\ Len(call.result) = Cardinality(FileFormat)
    /\ call.result[2] = "OGG_VORBIS_320"


RECURSIVE Flatten(_)
Flatten(seqs) == IF seqs = <<>> THEN <<>> ELSE Head(seqs) \o Flatten(Tail(seqs))

\* The byte count of the latest Progress event, 0 if there is none.
LastProgress(events) ==
    LET at == {i \in 1..Len(events) : events[i].type = "Progress"}
    IN  IF at = {} THEN 0
        ELSE events[CHOOSE i \in at : \A k \in at : i >= k].current

\* C23: the accumulator is as long as the byte count of the latest Progress
\* event (0 before the first) and is the concatenation, in read order, of the
\* bytes the non-empty reads returned; the file written after Finished holds
\* exactly the accumulator, and what a failed write left of it is a prefix.
C23_AccumulatorIsReadBytes ==
    /\ Len(job.file) = LastProgress(job.events)
    /\ Len(job.file) = job.current
    /\ job.file = Flatten(job.chunks)
    /\ job.disk.created =>
         /\ job.lastRead = "eof"
         /\ \E i \in 1..Len(job.events) : job.events[i] = Finished
         /\ Len(job.disk.bytes) <= Len(job.file)
         /\ job.disk.bytes = SubSeq(job.file, 1, Len(job.disk.bytes))
    /\ (job.pc = "done" /\ job.lastRead = "eof" /\ job.out = StreamEnd)
         => (job.disk.created /\ job.disk.bytes = job.file)

\* A file of two chunks, written.
C23_Witness ==
    /\ job.pc = "done"
    /\ job.out = StreamEnd
    /\ Len(job.chunks) = 2
    /\ job.disk.created
    /\ job.disk.bytes = job.chunks[1] \o job.chunks[2]
    /\ job.reader = "decrypt"

====
